---- MODULE Spec2Model ----
(***************************************************************************)
(* Model of src/lib.rs of pngCompressor: the neon-exported `compress`      *)
(* function, the job builder `create_compress_task`, the wrapper `perform` *)
(* around oxipng::optimize, and the worker threads spawned by `compress`.  *)
(***************************************************************************)
EXTENDS Integers, Sequences, FiniteSets, TLC

(* ------------------------------ bounds --------------------------------- *)
MaxJobs == 3
MaxEnvLen == 2
MaxThreads == 3

(* -------------------------- program constants -------------------------- *)
DefaultThreads == <<"8">>
InvalidFallback == 1

(* ------------------------------ inputs --------------------------------- *)
\* Values a JavaScript caller can put in a field of a record.
JsString(s) == [t |-> "string", v |-> s]
JsNumber(s) == [t |-> "number", v |-> s]
JsUndefined == [t |-> "undefined", v |-> ""]

\* Elements of the array handed to compress(): objects with `in' and `out'
\* properties (a missing property reads as undefined), or a non-object.
JsObject(i, o) == [isObject |-> TRUE, in |-> i, out |-> o]
JsNonObject == [isObject |-> FALSE, in |-> JsUndefined, out |-> JsUndefined]

RawRecords ==
    { JsObject(JsString("a.png"), JsString("a.png")),
      JsObject(JsString("b.png"), JsString("c.png")),
      JsObject(JsNumber("123"), JsString("x.png")),
      JsObject(JsString("a.png"), JsUndefined),
      JsNonObject }

SeqsUpTo(S, n) == UNION { [1..k -> S] : k \in 0..n }

\* Characters the compile-time value of PNG_COMPRESS_THREADS is made of.
EnvChars == {"0", "2", "+", "x"}

(* ------------------------- str::parse::<usize> -------------------------- *)
IsDigit(c) == c \in {"0", "1", "2", "3", "4", "5", "6", "7", "8", "9"}

DigitVal(c) ==
    CASE c = "0" -> 0 [] c = "1" -> 1 [] c = "2" -> 2 [] c = "3" -> 3
      [] c = "4" -> 4 [] c = "5" -> 5 [] c = "6" -> 6 [] c = "7" -> 7
      [] c = "8" -> 8 [] c = "9" -> 9

RECURSIVE DigitsVal(_)
DigitsVal(s) ==
    IF s = <<>> THEN 0
    ELSE 10 * DigitsVal(SubSeq(s, 1, Len(s) - 1)) + DigitVal(s[Len(s)])

\* usize::from_str: an optional leading '+', then one or more decimal digits;
\* anything else (empty, lone sign, '-', other characters) is Err.
ParseUsize(s) ==
    LET body == IF s # <<>> /\ s[1] = "+" THEN Tail(s) ELSE s
    IN  IF body # <<>> /\ \A i \in 1..Len(body) : IsDigit(body[i])
        THEN [ok |-> TRUE, val |-> DigitsVal(body)]
        ELSE [ok |-> FALSE, val |-> 0]

Max(a, b) == IF a >= b THEN a ELSE b
Min(a, b) == IF a <= b THEN a ELSE b

ThreadsHintOrDefault(e) ==
    LET str == IF e.set THEN e.val ELSE DefaultThreads
        p == ParseUsize(str)
    IN  IF p.ok THEN p.val ELSE 0
\* option_env!("PNG_COMPRESS_THREADS").unwrap_or("8").parse().unwrap_or(1)
ThreadsHint(e) ==
    LET str == IF e.set THEN e.val ELSE DefaultThreads
        p == ParseUsize(str)
    IN  IF p.ok THEN p.val ELSE InvalidFallback

EnvUnset == [set |-> FALSE, val |-> <<>>]
EnvValues ==
    {EnvUnset} \cup
    { e \in { [set |-> TRUE, val |-> s] : s \in SeqsUpTo(EnvChars, MaxEnvLen) } :
        ThreadsHint(e) <= MaxThreads }

NumThreadsHintOnly(e, len) == ThreadsHint(e)
NumThreadsMin(e, len) == Min(ThreadsHint(e), len)
\* ... .max(compress_arr.len())
NumThreads(e, len) == Max(ThreadsHint(e), len)

ChunkSizeRoundUp(len, nt) == IF nt = 0 THEN 0 ELSE len \div nt + 1
ChunkSizeFloor(len, nt) == IF nt = 0 THEN 0 ELSE len \div nt
\* (len as f64 / num_threads as f64).ceil() as usize; 0/0 is NaN, cast to 0.
\* num_threads >= len, so a positive len is never divided by zero.
ChunkSize(len, nt) == IF nt = 0 THEN 0 ELSE (len + nt - 1) \div nt

\* slice::chunks(cs) for cs > 0, over the positions 1..len of the vector:
\* consecutive chunks of cs positions, the last one possibly shorter.
Chunks(len, cs) ==
    [k \in 1..((len + cs - 1) \div cs) |->
        [i \in 1..(Min(k * cs, len) - (k - 1) * cs) |-> (k - 1) * cs + i]]

(* ------------------------- create_compress_task ------------------------- *)
CreateTaskLenient(val) ==
    [ok |-> TRUE, task |-> [input |-> val.in.v, out |-> val.out.v]]
\* downcast to JsObject, then `in' and `out' downcast to JsString; each failed
\* downcast throws and the unwrap() panics.
create_compress_task(val) ==
    IF val.isObject /\ val.in.t = "string" /\ val.out.t = "string"
    THEN [ok |-> TRUE, task |-> [input |-> val.in.v, out |-> val.out.v]]
    ELSE [ok |-> FALSE, task |-> [input |-> "", out |-> ""]]

(* -------------------------------- perform ------------------------------- *)
OptimizeResults == {"Ok", "Err"}
perform(res) == IF res = "Ok" THEN "done" ELSE "error"

(* -------------------------------- state --------------------------------- *)
VARIABLES
    env,            \* PNG_COMPRESS_THREADS as seen by option_env!
    argIsArray,     \* whether argument 0 downcasts to a JsArray
    args,           \* `vec': the elements of the argument array
    pc,             \* position of the calling thread inside compress()
    err,            \* why the call failed, "none" while it has not
    compress_arr,   \* the CompressTask vector built so far
    num_threads,
    chunk_size,
    handles,        \* the spawned threads, in spawn order
    joined,         \* number of handles joined so far
    calls,          \* per job position, the perform() invocations made
    retval          \* the number returned to the caller, -1 before

vars == <<env, argIsArray, args, pc, err, compress_arr, num_threads,
          chunk_size, handles, joined, calls, retval>>

Init ==
    /\ env \in EnvValues
    /\ argIsArray \in BOOLEAN
    /\ args \in SeqsUpTo(RawRecords, MaxJobs)
    /\ (~argIsArray => args = <<>>)
    /\ pc = "start"
    /\ err = "none"
    /\ compress_arr = <<>>
    /\ num_threads = 0
    /\ chunk_size = 0
    /\ handles = <<>>
    /\ joined = 0
    /\ calls = [j \in 1..Len(args) |-> <<>>]
    /\ retval = -1

(* ----------------------------- compress() ------------------------------- *)
\* cx.argument(0)? and to_vec(): a JS exception is thrown for a non-array.
GetArgument ==
    /\ pc = "start"
    /\ IF argIsArray
       THEN pc' = "build" /\ err' = err
       ELSE pc' = "failed" /\ err' = "argument"
    /\ UNCHANGED <<env, argIsArray, args, compress_arr, num_threads,
                   chunk_size, handles, joined, calls, retval>>

\* One element of vec.iter_mut().map(create_compress_task).collect().
BuildTask ==
    /\ pc = "build"
    /\ Len(compress_arr) < Len(args)
    /\ LET r == create_compress_task(args[Len(compress_arr) + 1])
       IN  IF r.ok
           THEN /\ compress_arr' = Append(compress_arr, r.task)
                /\ UNCHANGED <<pc, err>>
           ELSE /\ pc' = "failed"
                /\ err' = "create_compress_task"
                /\ UNCHANGED compress_arr
    /\ UNCHANGED <<env, argIsArray, args, num_threads, chunk_size, handles,
                   joined, calls, retval>>

\* num_threads and chunk_size are computed once the vector is complete.
Partition ==
    /\ pc = "build"
    /\ Len(compress_arr) = Len(args)
    /\ num_threads' = NumThreads(env, Len(compress_arr))
    /\ chunk_size' = ChunkSize(Len(compress_arr), num_threads')
    /\ pc' = IF num_threads' = 0 THEN "join" ELSE "spawn"
    /\ UNCHANGED <<env, argIsArray, args, err, compress_arr, handles, joined,
                   calls, retval>>

SpawnRechunk ==
    /\ pc = "spawn"
    /\ Len(handles) < num_threads
    /\ handles' = Append(handles, [idx |-> Len(handles), status |-> "spawned",
                                   chunk |-> <<>>, pos |-> 1])
    /\ chunk_size' = ChunkSize(Len(compress_arr), Len(handles'))
    /\ pc' = IF Len(handles') = num_threads THEN "join" ELSE "spawn"
    /\ UNCHANGED <<env, argIsArray, args, err, compress_arr, num_threads,
                   joined, calls, retval>>
\* One iteration of `for idx in 0..num_threads': thread::spawn and push.
Spawn ==
    /\ pc = "spawn"
    /\ Len(handles) < num_threads
    /\ handles' = Append(handles, [idx |-> Len(handles), status |-> "spawned",
                                   chunk |-> <<>>, pos |-> 1])
    /\ pc' = IF Len(handles') = num_threads THEN "join" ELSE "spawn"
    /\ UNCHANGED <<env, argIsArray, args, err, compress_arr, num_threads,
                   chunk_size, joined, calls, retval>>

JoinNoWait ==
    /\ pc = "join"
    /\ joined < Len(handles)
    /\ IF handles[joined + 1].status = "panicked"
       THEN pc' = "failed" /\ err' = "join" /\ UNCHANGED joined
       ELSE joined' = joined + 1 /\ UNCHANGED <<pc, err>>
    /\ UNCHANGED <<env, argIsArray, args, compress_arr, num_threads,
                   chunk_size, handles, calls, retval>>
JoinIgnoringPanic ==
    /\ pc = "join"
    /\ joined < Len(handles)
    /\ handles[joined + 1].status \in {"finished", "panicked"}
    /\ joined' = joined + 1
    /\ UNCHANGED <<env, argIsArray, args, pc, err, compress_arr, num_threads,
                   chunk_size, handles, calls, retval>>
\* One iteration of `for handle in handles': handle.join().unwrap() blocks
\* until the thread has ended and panics if the thread panicked.
Join ==
    /\ pc = "join"
    /\ joined < Len(handles)
    /\ handles[joined + 1].status \in {"finished", "panicked"}
    /\ IF handles[joined + 1].status = "finished"
       THEN joined' = joined + 1 /\ UNCHANGED <<pc, err>>
       ELSE pc' = "failed" /\ err' = "join" /\ UNCHANGED joined
    /\ UNCHANGED <<env, argIsArray, args, compress_arr, num_threads,
                   chunk_size, handles, calls, retval>>

ReturnEarly ==
    /\ pc \in {"spawn", "join"}
    /\ pc' = "returned"
    /\ retval' = Len(args)
    /\ UNCHANGED <<env, argIsArray, args, err, compress_arr, num_threads,
                   chunk_size, handles, joined, calls>>
\* Ok(cx.number(vec.len() as f64))
Return ==
    /\ pc = "join"
    /\ joined = Len(handles)
    /\ pc' = "returned"
    /\ retval' = Len(args)
    /\ UNCHANGED <<env, argIsArray, args, err, compress_arr, num_threads,
                   chunk_size, handles, joined, calls>>

(* --------------------------- worker threads ----------------------------- *)
SelectChunkFirst(k) ==
    /\ k \in 1..Len(handles)
    /\ handles[k].status = "spawned"
    /\ IF chunk_size = 0
       THEN handles' = [handles EXCEPT ![k].status = "panicked"]
       ELSE handles' = [handles EXCEPT ![k].status = "iter",
                          ![k].chunk = Chunks(Len(compress_arr), chunk_size)[1]]
    /\ UNCHANGED <<env, argIsArray, args, pc, err, compress_arr, num_threads,
                   chunk_size, joined, calls, retval>>
\* data_clone.chunks(chunk_size).nth(idx).unwrap(): chunks() panics on a zero
\* chunk size, unwrap() panics when there is no chunk number idx.
SelectChunk(k) ==
    /\ k \in 1..Len(handles)
    /\ handles[k].status = "spawned"
    /\ LET idx == handles[k].idx
       IN  IF chunk_size = 0
           THEN handles' = [handles EXCEPT ![k].status = "panicked"]
           ELSE LET cs == Chunks(Len(compress_arr), chunk_size)
                IN  IF idx < Len(cs)
                    THEN handles' = [handles EXCEPT ![k].status = "iter",
                                                    ![k].chunk = cs[idx + 1]]
                    ELSE handles' = [handles EXCEPT ![k].status = "panicked"]
    /\ UNCHANGED <<env, argIsArray, args, pc, err, compress_arr, num_threads,
                   chunk_size, joined, calls, retval>>

PerformItemUnwrap(k, res) ==
    /\ k \in 1..Len(handles)
    /\ handles[k].status = "iter"
    /\ handles[k].pos <= Len(handles[k].chunk)
    /\ LET j == handles[k].chunk[handles[k].pos]
           item == compress_arr[j]
       IN  /\ calls' = [calls EXCEPT ![j] = Append(@,
                          [input |-> item.input, out |-> item.out,
                           result |-> perform(res), by |-> handles[k].idx])]
           /\ IF perform(res) = "done"
              THEN handles' = [handles EXCEPT ![k].pos = @ + 1]
              ELSE handles' = [handles EXCEPT ![k].status = "panicked"]
    /\ UNCHANGED <<env, argIsArray, args, pc, err, compress_arr, num_threads,
                   chunk_size, joined, retval>>
\* One turn of .iter().for_each(|item| { perform(input, out); }): the string
\* perform() returns is dropped.
PerformItem(k, res) ==
    /\ k \in 1..Len(handles)
    /\ handles[k].status = "iter"
    /\ handles[k].pos <= Len(handles[k].chunk)
    /\ LET j == handles[k].chunk[handles[k].pos]
           item == compress_arr[j]
       IN  calls' = [calls EXCEPT ![j] = Append(@,
                       [input |-> item.input, out |-> item.out,
                        result |-> perform(res), by |-> handles[k].idx])]
    /\ handles' = [handles EXCEPT ![k].pos = @ + 1]
    /\ UNCHANGED <<env, argIsArray, args, pc, err, compress_arr, num_threads,
                   chunk_size, joined, retval>>

WorkerExitBlocked(k) ==
    /\ k \in 1..Len(handles)
    /\ handles[k].status = "iter"
    /\ handles[k].pos > Len(handles[k].chunk)
    /\ UNCHANGED vars
\* The closure returns once the chunk is exhausted.
WorkerExit(k) ==
    /\ k \in 1..Len(handles)
    /\ handles[k].status = "iter"
    /\ handles[k].pos > Len(handles[k].chunk)
    /\ handles' = [handles EXCEPT ![k].status = "finished"]
    /\ UNCHANGED <<env, argIsArray, args, pc, err, compress_arr, num_threads,
                   chunk_size, joined, calls, retval>>

WorkerBound == 1..(Max(MaxJobs, Max(MaxThreads, 8)))

Next ==
    \/ GetArgument
    \/ BuildTask
    \/ Partition
    \/ Spawn
    \/ Join
    \/ Return
    \/ \E k \in WorkerBound : SelectChunk(k)
    \/ \E k \in WorkerBound : \E res \in OptimizeResults : PerformItem(k, res)
    \/ \E k \in WorkerBound : WorkerExit(k)

Spec == Init /\ [][Next]_vars

\* The calling thread and each spawned thread are OS threads: each keeps
\* being scheduled while it has a step to take (a blocked join is not one).
Caller == GetArgument \/ BuildTask \/ Partition \/ Spawn \/ Join \/ Return
Worker(k) ==
    \/ SelectChunk(k)
    \/ \E res \in OptimizeResults : PerformItem(k, res)
    \/ WorkerExit(k)

\* Whether a call ends does not depend on which paths the records carry:
\* the fair specification draws the records from one well-formed and one
\* malformed record.
FairRecords ==
    { JsObject(JsString("a.png"), JsString("a.png")),
      JsObject(JsNumber("123"), JsString("x.png")) }

FairInit == Init /\ \A i \in 1..Len(args) : args[i] \in FairRecords

FairSpec ==
    /\ FairInit
    /\ [][Next]_vars
    /\ WF_vars(Caller)
    /\ \A k \in WorkerBound : WF_vars(Worker(k))

(* ------------------------ vocabulary of the claims ---------------------- *)
N == Len(args)
H == ThreadsHint(env)

\* A record is malformed when it is not an object or when `in' or `out' is
\* missing (undefined) or not a string.
Malformed(r) ==
    \/ ~r.isObject
    \/ r.in.t # "string"
    \/ r.out.t # "string"

ValidBatch == argIsArray /\ \A i \in 1..N : ~Malformed(args[i])

Ended == pc \in {"returned", "failed"}
Partitioned == pc \in {"spawn", "join", "returned"} \/ err = "join"
AllSpawned == pc \in {"join", "returned"} \/ err = "join"
AllSelected == AllSpawned /\ \A k \in 1..Len(handles) : handles[k].status # "spawned"
NoCalls == \A j \in 1..N : calls[j] = <<>>
SomePanicked == \E k \in 1..Len(handles) : handles[k].status = "panicked"

RECURSIVE ConcatChunks(_)
ConcatChunks(k) ==
    IF k = 0 THEN <<>> ELSE ConcatChunks(k - 1) \o handles[k].chunk

Range(s) == { s[i] : i \in 1..Len(s) }

(* -------------------------------- claims -------------------------------- *)

\* C1: for every valid batch of N jobs and every hint H, a call that has
\* ended has returned exactly N, whatever the outcomes of the compressions.
C1_ReturnsN ==
    (ValidBatch /\ Ended) => (pc = "returned" /\ retval = N)

C3_PartitionComplete ==
    AllSelected =>
        /\ ConcatChunks(Len(handles)) = [j \in 1..N |-> j]
        /\ \A k1, k2 \in 1..Len(handles) :
              k1 # k2 => Range(handles[k1].chunk) \cap Range(handles[k2].chunk) = {}
        /\ \A k \in 1..Len(handles) : \A i \in 1..Len(handles[k].chunk) :
              handles[k].chunk[i] = handles[k].idx * chunk_size + i
        /\ \A j \in 1..N :
              /\ compress_arr[j].input = args[j].in.v
              /\ compress_arr[j].out = args[j].out.v

C3_Witness ==
    /\ AllSelected
    /\ N = 3
    /\ \A j \in 1..N : handles[j].chunk = <<j>>
    /\ args[1] # args[2]

\* C4: for an empty batch the workers are spawned with empty assignments,
\* none of them fails, the primitive is never invoked and the call returns 0.
C4_EmptyBatchOk ==
    (argIsArray /\ N = 0) =>
        /\ ~SomePanicked
        /\ pc # "failed"
        /\ pc = "returned" => retval = 0

\* C5: when the job count is below the hint, every worker whose index is
\* not below the number of chunks gets an empty assignment, invokes nothing
\* and does not fail, and the call returns N.
C5_ExtraWorkersIdle ==
    (ValidBatch /\ N >= 1 /\ N < H) =>
        /\ \A k \in 1..Len(handles) :
              handles[k].idx >= Len(Chunks(N, 1)) => handles[k].status # "panicked"
        /\ Ended => (pc = "returned" /\ retval = N)

\* C6: when some record of the input is malformed the call fails while the
\* jobs are being built: it never gets past building, no worker is ever
\* spawned and the primitive is invoked for no job, the well-formed records
\* before the malformed one included.
C6_MalformedFailsEarly ==
    (\E i \in 1..N : Malformed(args[i])) =>
        /\ pc \in {"start", "build", "failed"}
        /\ pc = "failed" => err = "create_compress_task"
        /\ handles = <<>>
        /\ NoCalls
        /\ retval = -1

C6_Witness ==
    /\ pc = "failed"
    /\ err = "create_compress_task"
    /\ Len(compress_arr) = 2
    /\ Malformed(args[3])

\* C7: a call in which a worker has panicked never returns a count; every
\* joined worker ended normally, and the join of a panicked worker is the
\* fatal error of the call.
C7_PanicIsFatal ==
    /\ SomePanicked => (pc # "returned" /\ retval = -1)
    /\ \A k \in 1..joined : handles[k].status = "finished"
    /\ err = "join" => handles[joined + 1].status = "panicked"

C7_Witness ==
    /\ pc = "failed"
    /\ err = "join"
    /\ joined = 2
    /\ handles[3].status = "panicked"

\* C8: a compression that yields "error" is absorbed: the worker that made
\* it has not failed, a worker that has ended normally has executed every
\* job of its slice, a fatal join is never that of a worker that invoked the
\* primitive, and a call that returned executed every job.
C8_ErrorAbsorbed ==
    /\ \A j \in 1..N : \A c \in 1..Len(calls[j]) :
          calls[j][c].result = "error" =>
              handles[calls[j][c].by + 1].status \in {"iter", "finished"}
    /\ \A k \in 1..Len(handles) :
          handles[k].status = "finished" =>
              \A i \in 1..Len(handles[k].chunk) : calls[handles[k].chunk[i]] # <<>>
    /\ err = "join" =>
          \A j \in 1..N : \A c \in 1..Len(calls[j]) :
              calls[j][c].by # handles[joined + 1].idx
    /\ pc = "returned" => \A j \in 1..N : calls[j] # <<>>

C8_Witness ==
    /\ pc = "returned"
    /\ N = 3
    /\ calls[1] # <<>> /\ calls[1][1].result = "error"
    /\ calls[2] # <<>> /\ calls[2][1].result = "done"
    /\ calls[3] # <<>> /\ calls[3][1].result = "error"

\* C9: when the batch is smaller than the configured or default thread
\* count, the number of worker threads is the batch size.
C9_ThreadsIsBatchSize ==
    (Partitioned /\ N < H) => num_threads = N

\* C10: when PNG_COMPRESS_THREADS is set to an unparsable value the whole
\* batch is compressed in a single thread, for every batch size.
C10_InvalidEnvSingleThread ==
    (AllSpawned /\ env.set /\ ~ParseUsize(env.val).ok) => Len(handles) = 1

\* C11: the hint taken from PNG_COMPRESS_THREADS is 8 when the setting is
\* absent, the parsed integer when it parses as a positive integer and 1
\* when it is present but unparsable; the thread count is that hint raised
\* to the job count.
C11_HintFromEnv ==
    /\ ~env.set => H = 8
    /\ (env.set /\ ParseUsize(env.val).ok /\ ParseUsize(env.val).val > 0) =>
          H = ParseUsize(env.val).val
    /\ (env.set /\ ~ParseUsize(env.val).ok) => H = 1
    /\ (env.set /\ env.val \in {<<"2">>, <<"+", "2">>, <<"0", "2">>}) => H = 2
    /\ (env.set /\ env.val \in {<<>>, <<"x">>, <<"+">>, <<"2", "x">>, <<"x", "2">>}) =>
          H = 1
    /\ (Partitioned /\ N = 0 /\ ~env.set) => num_threads = 8
    /\ (Partitioned /\ N = 0 /\ env.set /\ ~ParseUsize(env.val).ok) => num_threads = 1
    /\ Partitioned => num_threads = Max(H, N)

C11_Witness ==
    /\ Partitioned
    /\ env.set
    /\ env.val = <<"x">>
    /\ N = 0
    /\ num_threads = 1

\* C12: the call has returned only when every spawned worker has finished:
\* in no state has it returned while a worker runs or has not started.
C12_ReturnAfterAllFinished ==
    pc = "returned" =>
        /\ Len(handles) = num_threads
        /\ joined = Len(handles)
        /\ \A k \in 1..Len(handles) : handles[k].status = "finished"

C12_Witness ==
    /\ pc = "returned"
    /\ Len(handles) = 3
    /\ handles[3].status = "finished"

\* C13: no job is ever executed twice, each invocation carries the paths of
\* its own descriptor, and when the call has returned every job has been
\* executed exactly once.
C13_EachJobOnce ==
    /\ \A j \in 1..N : Len(calls[j]) <= 1
    /\ \A j \in 1..N : \A c \in 1..Len(calls[j]) :
          /\ calls[j][c].input = args[j].in.v
          /\ calls[j][c].out = args[j].out.v
    /\ pc = "returned" => \A j \in 1..N : Len(calls[j]) = 1

C13_Witness ==
    /\ pc = "returned"
    /\ N = 2
    /\ Len(calls[1]) = 1 /\ calls[1][1].input = "a.png" /\ calls[1][1].out = "a.png"
    /\ Len(calls[2]) = 1 /\ calls[2][1].input = "b.png" /\ calls[2][1].out = "c.png"

PhaseRank ==
    CASE pc \in {"start", "build"} -> 0
      [] pc = "spawn" -> 2
      [] pc = "join" /\ joined < Len(handles) -> 2
      [] pc = "join" /\ joined = Len(handles) -> 3
      [] pc = "returned" -> 4
      [] pc = "failed" -> 5

\* C15: a call moves through Idle, Partitioning, Executing, Joined, Returned
\* in that order only: num_threads and chunk_size are set by the step that
\* leaves Idle and never change once a worker exists, every worker is
\* spawned before the first join, Returned is entered from Joined only, and
\* after a fatal failure no phase is entered.
C15_LinearPipeline ==
    [][ /\ pc = "failed" =>
              /\ pc' = "failed"
              /\ retval' = retval
              /\ joined' = joined
              /\ Len(handles') = Len(handles)
        /\ pc = "returned" => pc' = "returned"
        /\ (pc # "failed" /\ pc' # "failed") =>
              \/ PhaseRank' = PhaseRank
              \/ PhaseRank = 0 /\ PhaseRank' = 2 /\ handles = <<>>
                    /\ num_threads' = Max(H, N) /\ num_threads' > 0
              \/ PhaseRank = 0 /\ PhaseRank' = 3 /\ num_threads' = 0
              \/ PhaseRank = 2 /\ PhaseRank' = 3
              \/ PhaseRank = 3 /\ PhaseRank' = 4
        /\ (PhaseRank # 0 \/ handles # <<>>) =>
              (num_threads' = num_threads /\ chunk_size' = chunk_size)
        /\ Len(handles') # Len(handles) =>
              (pc = "spawn" /\ joined = 0 /\ Len(handles') = Len(handles) + 1)
        /\ joined' # joined =>
              (Len(handles) = num_threads /\ joined' = joined + 1)
      ]_vars

C15_Witness ==
    /\ pc = "join"
    /\ PhaseRank = 3
    /\ joined = 2
    /\ chunk_size = 1

\* C16: with every thread scheduled fairly and every invocation of the
\* primitive terminating, every call eventually ends, by returning or by a
\* fatal error; a dispatcher that joins never waits forever.
C16_Terminates ==
    /\ <>Ended
    /\ (pc = "join") ~> Ended

C16_Witness ==
    /\ pc = "returned"
    /\ joined = 2
    /\ \E j \in 1..N : calls[j] # <<>> /\ calls[j][1].result = "error"

====
